---- MODULE Spec2Model ----
(***************************************************************************)
(* Prospect Finder (prospect_finder.py): a Streamlit page over the Apollo  *)
(* people-search and people-enrichment endpoints.                          *)
(*                                                                         *)
(* Text the programme inspects character by character (account names,      *)
(* job titles, role keywords) is a sequence of one-character strings.      *)
(* Text it only passes around (identifiers, e-mail addresses, phone        *)
(* numbers, geography labels) is a TLA+ string.                            *)
(***************************************************************************)
EXTENDS Integers, Sequences, FiniteSets, TLC

VARIABLES
    apiKey,      \* TRUE iff _get_api_key() finds APOLLO_API_KEY
    prospects,   \* st.session_state.prospects
    contacts,    \* st.session_state.contacts
    last,        \* st.session_state.last_account/_geo/_role/_mgmt/_include_prospected
    cache,       \* the memo of @st.cache_data around get_contact_details
    enrichLog,   \* per identifier, the enrichment requests sent so far ("ok" or "failed")
    run,         \* what the latest script run of main() did
    fn           \* one call of a pure function: its argument and its result

vars == <<apiKey, prospects, contacts, last, cache, enrichLog, run, fn>>

\* ------------------------------ bounds ------------------------------------
MaxPeople == 2       \* people in one search response (session)
MaxCalls == 2        \* enrichment requests followed per identifier
MaxTitleLen == 2     \* length of the generated job titles
MaxBatch == 2        \* people in one response when the filter is checked alone
MaxEmails == 2       \* entries of an enrichment response's emails array
MaxPhones == 1       \* entries of each phone array

\* ------------------------------ constants ---------------------------------
GEOGRAPHIES == <<"Netherlands", "Sweden", "Finland", "Norway", "Denmark", "Estonia">>

ROLE_TYPES ==
    [ExP |-> <<
       <<"C", "I", "O">>,
       <<"C", "h", "i", "e", "f", " ", "I", "n", "f", "o", "r", "m", "a", "t", "i", "o", "n", " ", "O", "f", "f", "i", "c", "e", "r">>,
       <<"V", "P", " ", "I", "T">>,
       <<"I", "T", " ", "D", "i", "r", "e", "c", "t", "o", "r">>,
       <<"I", "T">>,
       <<"I", "T", " ", "M", "a", "n", "a", "g", "e", "r">>,
       <<"C", "T", "I", "O">>,
       <<"D", "i", "r", "e", "c", "t", "o", "r", " ", "o", "f", " ", "I", "T", " ", "O", "p", "e", "r", "a", "t", "i", "o", "n", "s">>,
       <<"I", "T", " ", "I", "n", "f", "r", "a", "s", "t", "r", "u", "c", "t", "u", "r", "e", " ", "D", "i", "r", "e", "c", "t", "o", "r">>,
       <<"S", "e", "n", "i", "o", "r", " ", "I", "T", " ", "D", "i", "r", "e", "c", "t", "o", "r">> >>,
     Security |-> <<
       <<"S", "e", "c", "u", "r", "i", "t", "y">> >>]

RoleNames == DOMAIN ROLE_TYPES

SENIORITY_LEVELS ==
    <<"owner", "founder", "c_suite", "partner", "vp", "head", "director", "manager">>

SEARCH_ENDPOINT == "https://api.apollo.io/api/v1/mixed_people/search"
ENRICH_ENDPOINT == "https://api.apollo.io/api/v1/people/match"

DefaultPerPage == 25
MinPerPage == 1
MaxPerPage == 100

\* Python's None.
None == "<None>"
\* A list parameter the request does not carry (the key is never set).
Absent == <<>>

\* ------------------------------ text --------------------------------------
UpperChars == <<"A", "B", "C", "D", "E", "F", "G", "H", "I", "J", "K", "L", "M",
                "N", "O", "P", "Q", "R", "S", "T", "U", "V", "W", "X", "Y", "Z">>
LowerChars == <<"a", "b", "c", "d", "e", "f", "g", "h", "i", "j", "k", "l", "m",
                "n", "o", "p", "q", "r", "s", "t", "u", "v", "w", "x", "y", "z">>

\* The case folding re.I applies to one character.
FoldMap == [c \in {UpperChars[i] : i \in 1..Len(UpperChars)} |->
               LowerChars[CHOOSE i \in 1..Len(UpperChars) : UpperChars[i] = c]]
FoldChar(c) == IF c \in DOMAIN FoldMap THEN FoldMap[c] ELSE c

Range(s) == {s[i] : i \in 1..Len(s)}

SeqsUpTo(S, n) == UNION {[1..k -> S] : k \in 0..n}

IsSpace(c) == c = " "

RECURSIVE LStrip(_)
LStrip(s) ==
    IF s = <<>> THEN <<>>
    ELSE IF IsSpace(Head(s)) THEN LStrip(Tail(s)) ELSE s

RECURSIVE RStrip(_)
RStrip(s) ==
    IF s = <<>> THEN <<>>
    ELSE IF IsSpace(s[Len(s)]) THEN RStrip(SubSeq(s, 1, Len(s) - 1)) ELSE s

\* str.strip()
Strip(s) == RStrip(LStrip(s))

Min(a, b) == IF a < b THEN a ELSE b
Max(a, b) == IF a > b THEN a ELSE b

\* ------------------------------ title filter ------------------------------
\* ROLE_PATTERNS[role] is re.compile("(" + "|".join(map(re.escape, titles)) + ")", re.I):
\* an alternation of literal keywords, matched ignoring case.  The pattern is
\* kept as the sequence of its alternatives.
ROLE_PATTERNS == [role \in RoleNames |-> ROLE_TYPES[role]]

\* One alternative matched at position pos of the text, character by character.
RECURSIVE MatchAt(_, _, _, _)
MatchAt(kw, text, pos, k) ==
    IF k > Len(kw) THEN TRUE
    ELSE IF pos + k - 1 > Len(text) THEN FALSE
    ELSE IF FoldChar(text[pos + k - 1]) # FoldChar(kw[k]) THEN FALSE
    ELSE MatchAt(kw, text, pos, k + 1)

\* The alternatives tried in order at one position.
RECURSIVE AltsMatchAt(_, _, _, _)
AltsMatchAt(alts, text, pos, a) ==
    IF a > Len(alts) THEN FALSE
    ELSE IF MatchAt(alts[a], text, pos, 1) THEN TRUE
    ELSE AltsMatchAt(alts, text, pos, a + 1)

\* The scan of re.search: every start position from the left.
RECURSIVE SearchFrom(_, _, _)
SearchFrom(alts, text, pos) ==
    IF pos > Len(text) + 1 THEN FALSE
    ELSE IF AltsMatchAt(alts, text, pos, 1) THEN TRUE
    ELSE SearchFrom(alts, text, pos + 1)

\* Mutation: re.match instead of re.search (anchored at the start).
PatternSearchAnchored(alts, text) == AltsMatchAt(alts, text, 1, 1)

\* pattern.search(title) is not None
PatternSearch(alts, text) == SearchFrom(alts, text, 1)

\* A person's "title" as the service sends it: a string, null / no key, or a number.
StrTitle(s) == [kind |-> "str", s |-> s, n |-> 0]
NoTitle == [kind |-> "none", s |-> <<>>, n |-> 0]
NumTitle(n) == [kind |-> "int", s |-> <<>>, n |-> n]

Digits == <<"0", "1", "2", "3", "4", "5", "6", "7", "8", "9">>

\* str(n) of a number 0..99
RECURSIVE StrNat(_)
StrNat(n) == IF n < 10 THEN <<Digits[n + 1]>> ELSE StrNat(n \div 10) \o <<Digits[(n % 10) + 1]>>

\* title = raw_title if isinstance(raw_title, str) else str(raw_title or "")
TitleText(raw) ==
    IF raw.kind = "str" THEN raw.s
    ELSE IF raw.kind = "none" \/ raw.n = 0 THEN <<>>
    ELSE StrNat(raw.n)

\* A person's "id": a string, or no key at all.
NoId == "<no id>"

\* str(person.get("id", ""))
StrId(id) == IF id = NoId THEN "" ELSE id

\* The record search_prospects appends for a person that passes the filter
\* (the fields the session reads back: id, title, location).
ProspectOf(person, geography) ==
    [id |-> StrId(person.id), title |-> TitleText(person.title), location |-> geography]

\* The loop over data.get("people", []).
RECURSIVE FilterPeople(_, _, _)
FilterPeople(people, role_type, geography) ==
    IF people = <<>> THEN <<>>
    ELSE LET person == Head(people)
             rest == FilterPeople(Tail(people), role_type, geography)
         IN IF ~PatternSearch(ROLE_PATTERNS[role_type], TitleText(person.title))
            THEN rest
            ELSE <<ProspectOf(person, geography)>> \o rest

\* ------------------------------ contact selection -------------------------
\* Python truthiness of an optional string.
Truthy(v) == v # None /\ v # ""

\* An entry of a phone array: a JSON object (its phone_number, None without the
\* key) or a bare string.
PhoneDict(n) == [isdict |-> TRUE, phone_number |-> n]
PhoneBare(n) == [isdict |-> FALSE, phone_number |-> n]

\* next((e.get("value") for e in emails if e.get("status") == "verified"), None)
RECURSIVE FirstVerified(_)
FirstVerified(emails) ==
    IF emails = <<>> THEN None
    ELSE IF Head(emails).status = "verified" THEN Head(emails).value
    ELSE FirstVerified(Tail(emails))

\* Mutation: the selection with no fallback to the first entry.
SelectEmailVerifiedOnly(emails) == FirstVerified(emails)

\* lines 161-164: the verified value, or else the first entry's value.
SelectEmail(emails) ==
    IF Truthy(FirstVerified(emails)) THEN FirstVerified(emails)
    ELSE IF emails # <<>> THEN emails[1].value ELSE None

\* nums[0].get("phone_number") if isinstance(nums[0], dict) else nums[0]
FirstNumber(nums) == nums[1].phone_number

\* lines 166-171: the first non-empty array decides, and only its first entry.
SelectPhone(direct_dials, mobile_phone_numbers) ==
    IF direct_dials # <<>> THEN FirstNumber(direct_dials)
    ELSE IF mobile_phone_numbers # <<>> THEN FirstNumber(mobile_phone_numbers)
    ELSE None

\* lines 161-173 on a response object.
ContactFromData(data) ==
    <<SelectEmail(data.emails), SelectPhone(data.direct_dials, data.mobile_phone_numbers)>>

\* ------------------------------ directory client --------------------------
\* What the external call does: the transport fails (requests.RequestException),
\* or a response arrives with a status and a body.  A body is not JSON at all, a
\* JSON value that is no object and is falsy in Python (null, [], 0, ""), a JSON
\* value that is no object and is truthy ([1], "Forbidden"), or a JSON object.
JsonKinds == {"notjson", "falsy", "truthy", "object"}

Transport == [kind |-> "transport", status |-> 0, json |-> "notjson", obj |-> None]
Http(status, json, obj) == [kind |-> "http", status |-> status, json |-> json, obj |-> obj]

\* resp.raise_for_status() raises HTTPError, a RequestException.
RaisesForStatus(status) == status >= 400 /\ status < 600

\* The None that _apollo_request returns in place of a parsed body.
NoneData == [json |-> "none", obj |-> None]

\* What a caller of _apollo_request gets back.
Reply(raised, data, sent, error) ==
    [raised |-> raised, data |-> data, sent |-> sent, error |-> error]

\* _apollo_request.  resp.json() on a body that is not JSON raises
\* requests.exceptions.JSONDecodeError, a RequestException, which the except
\* clause catches; .get on a JSON value that is no object raises AttributeError,
\* which it does not.
ApolloRequest(key, outcome) ==
    IF ~key THEN Reply(FALSE, NoneData, FALSE, TRUE)
    ELSE IF outcome.kind = "transport" THEN Reply(FALSE, NoneData, TRUE, TRUE)
    ELSE IF outcome.status = 403 THEN
        IF outcome.json = "notjson" THEN Reply(FALSE, NoneData, TRUE, TRUE)
        ELSE IF outcome.json = "object" THEN Reply(FALSE, NoneData, TRUE, TRUE)
        ELSE Reply(TRUE, NoneData, TRUE, FALSE)
    ELSE IF RaisesForStatus(outcome.status) THEN Reply(FALSE, NoneData, TRUE, TRUE)
    ELSE IF outcome.json = "notjson" THEN Reply(FALSE, NoneData, TRUE, TRUE)
    ELSE Reply(FALSE, [json |-> outcome.json, obj |-> outcome.obj], TRUE, FALSE)

\* `not data` in the callers.
NoData(data) == data.json \in {"none", "falsy"}

\* The call failed in the sense of the error taxonomy: no credential, a
\* transport error, a status outside 2xx, or a body that is not JSON.
CallFailed(key, outcome) ==
    \/ ~key
    \/ outcome.kind = "transport"
    \/ outcome.status < 200 \/ outcome.status > 299
    \/ outcome.json = "notjson"

Request(url, params) == [method |-> "post", url |-> url, params |-> params]

\* lines 110-121: the query parameters of one search.
SearchParams(account, geography, titles, management_only, include_prospected, per_page) ==
    [page |-> 1,
     per_page |-> Min(Max(per_page, MinPerPage), MaxPerPage),
     q_organization_name |-> account,
     person_locations |-> <<geography>>,
     person_titles |-> titles,
     person_seniorities |-> IF management_only THEN SENIORITY_LEVELS ELSE Absent,
     prospected_statuses |->
         IF include_prospected THEN <<"prospected", "not_prospected">> ELSE Absent]

SearchResult(raised, found, requests, error) ==
    [raised |-> raised, found |-> found, requests |-> requests, error |-> error]

\* Mutation: the flag is never put into the request.
SearchProspectsNoFlag(account, geography, role_type, management_only, include_prospected, per_page, key, outcome) ==
    LET req == Request(SEARCH_ENDPOINT,
                       SearchParams(account, geography, ROLE_TYPES[role_type],
                                    management_only, FALSE, per_page))
        reply == ApolloRequest(key, outcome)
        sent == IF reply.sent THEN <<req>> ELSE <<>>
    IN IF reply.raised \/ (~NoData(reply.data) /\ reply.data.json # "object")
       THEN SearchResult(TRUE, <<>>, sent, reply.error)
       ELSE IF NoData(reply.data) THEN SearchResult(FALSE, <<>>, sent, reply.error)
       ELSE SearchResult(FALSE, FilterPeople(reply.data.obj.people, role_type, geography),
                         sent, reply.error)

\* search_prospects
SearchProspects(account, geography, role_type, management_only, include_prospected, per_page, key, outcome) ==
    LET titles == IF role_type \in RoleNames THEN ROLE_TYPES[role_type] ELSE <<>>
    IN IF account = <<>> \/ titles = <<>> THEN SearchResult(FALSE, <<>>, <<>>, FALSE)
       ELSE
        LET req == Request(SEARCH_ENDPOINT,
                           SearchParams(account, geography, titles, management_only,
                                        include_prospected, per_page))
            reply == ApolloRequest(key, outcome)
            sent == IF reply.sent THEN <<req>> ELSE <<>>
        IN IF reply.raised THEN SearchResult(TRUE, <<>>, sent, reply.error)
           ELSE IF NoData(reply.data) THEN SearchResult(FALSE, <<>>, sent, reply.error)
           ELSE IF reply.data.json # "object" THEN SearchResult(TRUE, <<>>, sent, reply.error)
           ELSE SearchResult(FALSE,
                             FilterPeople(reply.data.obj.people, role_type, geography),
                             sent, reply.error)

\* ------------------------------ enrichment --------------------------------
EmptyMap == [x \in {} |-> None]

Put(m, k, v) == [x \in DOMAIN m \cup {k} |-> IF x = k THEN v ELSE m[x]]

NoContact == <<None, None>>

ContactResult(raised, value, memo, requests, error, hit) ==
    [raised |-> raised, value |-> value, memo |-> memo, requests |-> requests,
     error |-> error, hit |-> hit]

\* The body of get_contact_details, lines 148-173.
ContactBody(person_id, key, outcome) ==
    IF person_id = "" THEN [raised |-> FALSE, value |-> NoContact, requests |-> <<>>, error |-> FALSE]
    ELSE
      LET req == Request(ENRICH_ENDPOINT,
                         [id |-> person_id, reveal_personal_emails |-> "true",
                          reveal_phone_number |-> "true"])
          reply == ApolloRequest(key, outcome)
          sent == IF reply.sent THEN <<req>> ELSE <<>>
      IN IF reply.raised
         THEN [raised |-> TRUE, value |-> NoContact, requests |-> sent, error |-> reply.error]
         ELSE IF NoData(reply.data)
         THEN [raised |-> FALSE, value |-> NoContact, requests |-> sent, error |-> reply.error]
         ELSE IF reply.data.json # "object"
         THEN [raised |-> TRUE, value |-> NoContact, requests |-> sent, error |-> reply.error]
         ELSE [raised |-> FALSE, value |-> ContactFromData(reply.data.obj),
               requests |-> sent, error |-> reply.error]

\* get_contact_details under @st.cache_data: a stored value is returned without
\* running the body; a value the body returns is stored; an exception stores nothing.
GetContactDetails(person_id, memo, key, outcome) ==
    IF person_id \in DOMAIN memo
    THEN ContactResult(FALSE, memo[person_id], memo, <<>>, FALSE, TRUE)
    ELSE LET b == ContactBody(person_id, key, outcome)
         IN IF b.raised
            THEN ContactResult(TRUE, b.value, memo, b.requests, b.error, FALSE)
            ELSE ContactResult(FALSE, b.value, Put(memo, person_id, b.value),
                               b.requests, b.error, FALSE)

\* ------------------------------ session -----------------------------------
Filters(account, geo, role, mgmt, inc) ==
    [account |-> account, geo |-> geo, role |-> role, mgmt |-> mgmt,
     include_prospected |-> inc]

\* _init_state
DefaultFilters == Filters(<<>>, GEOGRAPHIES[1], "ExP", TRUE, FALSE)

\* What one script run did: the widget that triggered it, whether a submission
\* was turned down, whether the external call failed, whether an exception left
\* the client function, the error box, the requests that went out, the value
\* the client function returned and, for a reveal, the identifier and whether
\* the memo answered; for a submission, the account as typed and the form's
\* other fields.
Ran(kind, rejected, failed, raised, error, requests, found, contact, id, hit) ==
    [kind |-> kind, rejected |-> rejected, failed |-> failed, raised |-> raised,
     error |-> error, requests |-> requests, found |-> found, contact |-> contact,
     id |-> id, hit |-> hit, typed |-> <<>>, form |-> <<>>, answer |-> <<>>]

Submitted(r, typed, form) == [r EXCEPT !.typed = typed, !.form = form]

\* The status and the kind of body of the answer to the run's request, if one went out.
Answered(r, outcome) ==
    IF r.requests = <<>> THEN r
    ELSE [r EXCEPT !.answer = <<outcome.kind, outcome.status, outcome.json>>]

FirstRun == Ran("load", FALSE, FALSE, FALSE, FALSE, <<>>, <<>>, NoContact, "", FALSE)

IdleFn == [pc |-> "idle", name |-> "", arg |-> <<>>, ret |-> <<>>]

\* --- what the session is fed
AccountInputs == {<<>>, <<" ">>, <<" ", " ">>, <<" ", "a", " ">>}
\* The form's other fields: geography, role type, "Management and above",
\* "Include previously prospected contacts".
FilterInputs ==
    {<<GEOGRAPHIES[2], "ExP", FALSE, TRUE>>,
     <<GEOGRAPHIES[1], "Security", TRUE, FALSE>>}
SessionTitles == {StrTitle(<<"i", "t">>)}
SessionIds == {NoId, "p1"}
SessionPersons == [id : SessionIds, title : SessionTitles]
SessionPeople == SeqsUpTo(SessionPersons, MaxPeople)
NoPeople == [people |-> <<>>]

\* The answers that carry no result: a transport error, a 500 page, a 403 with
\* each kind of body, a 200 whose body is no JSON object.
Failures(obj) ==
    {Transport, Http(500, "notjson", obj)}
    \cup {Http(403, j, obj) : j \in JsonKinds}
    \cup {Http(200, j, obj) : j \in JsonKinds \ {"object"}}

SearchOutcomes ==
    Failures(NoPeople)
    \cup {Http(200, "object", [people |-> p]) : p \in SessionPeople}

EmailEntry(value, status) == [value |-> value, status |-> status]

\* The enrichment response of the concrete scenario, and one with nothing in it.
ScenarioContact ==
    [emails |-> <<EmailEntry("a@x.com", "verified"), EmailEntry("b@x.com", "unverified")>>,
     direct_dials |-> <<>>,
     mobile_phone_numbers |-> <<PhoneDict("+1-555-0100")>>]
BlankContact == [emails |-> <<>>, direct_dials |-> <<>>, mobile_phone_numbers |-> <<>>]

EnrichOutcomes ==
    Failures(BlankContact)
    \cup {Http(200, "object", c) : c \in {ScenarioContact, BlankContact}}

\* The service answers only a request that is sent; a call that sends none has
\* nothing to draw.
Answers(sends, outcomes) == IF sends THEN outcomes ELSE {Transport}

EnrichIds == {StrId(id) : id \in SessionIds}

Init ==
    /\ apiKey \in BOOLEAN
    /\ prospects = <<>>
    /\ contacts = EmptyMap
    /\ last = DefaultFilters
    /\ cache = EmptyMap
    /\ enrichLog = [id \in EnrichIds |-> <<>>]
    /\ run = FirstRun
    /\ fn = IdleFn

\* Mutation: the clear that is not done.
KeptContacts(c) == c

\* st.session_state.contacts.clear()
ClearedContacts(c) == EmptyMap

\* Mutation: the account is tested as typed.
BlankAccountUnstripped(account) == account = <<>>

\* not account.strip()
BlankAccount(account) == Strip(account) = <<>>

\* The "Search" button: lines 231-249 (the display that follows changes nothing).
Submit ==
    \E account \in AccountInputs :
        IF BlankAccount(account)
        THEN /\ run' = Submitted(Ran("search", TRUE, FALSE, FALSE, TRUE, <<>>, <<>>,
                                     NoContact, "", FALSE), account, <<>>)
             /\ UNCHANGED <<apiKey, prospects, contacts, last, cache, enrichLog, fn>>
        ELSE \E form \in FilterInputs, outcome \in Answers(apiKey, SearchOutcomes) :
             LET geography == form[1]
                 role_type == form[2]
                 mgmt_toggle == form[3]
                 inc_prospected_toggle == form[4]
                 failed == CallFailed(apiKey, outcome)
             IN \E r \in {SearchProspects(Strip(account), geography, role_type, mgmt_toggle,
                                         inc_prospected_toggle, DefaultPerPage, apiKey,
                                         outcome)} :
                IF r.raised
                THEN /\ run' = Answered(Submitted(Ran("search", FALSE, failed, TRUE,
                                                      r.error, r.requests, <<>>,
                                                      NoContact, "", FALSE),
                                                  account, form), outcome)
                     /\ UNCHANGED <<apiKey, prospects, contacts, last, cache, enrichLog, fn>>
                ELSE /\ prospects' = r.found
                     /\ contacts' = ClearedContacts(contacts)
                     /\ last' = Filters(Strip(account), geography, role_type, mgmt_toggle,
                                        inc_prospected_toggle)
                     /\ run' = Answered(Submitted(Ran("search", FALSE, failed, FALSE,
                                                      r.error, r.requests, r.found,
                                                      NoContact, "", FALSE),
                                                  account, form), outcome)
                     /\ UNCHANGED <<apiKey, cache, enrichLog, fn>>

\* Streamlit refuses a second widget with the key of an earlier one
\* (DuplicateWidgetID) and the run ends there: position k of the list is where
\* the display stops.
DisplayStopsAt(k) ==
    /\ prospects[k].id \notin DOMAIN contacts
    /\ \E j \in 1..(k - 1) : prospects[j].id = prospects[k].id

\* The positions whose "Reveal contact" button is on the page, lines 257-269.
RevealButtons ==
    {i \in 1..Len(prospects) :
        /\ prospects[i].id \notin DOMAIN contacts
        /\ \A k \in 1..i : ~DisplayStopsAt(k)}

\* The request log: what each enrichment request sent for an identifier came to.
Logged(log, id, requests, failed) ==
    IF requests = <<>> THEN log
    ELSE [log EXCEPT ![id] = Append(@, IF failed THEN "failed" ELSE "ok")]

\* A "Reveal contact" button: lines 269-273.
Reveal ==
    \E i \in RevealButtons :
      \E outcome \in Answers(apiKey /\ prospects[i].id \notin DOMAIN cache \cup {""},
                           EnrichOutcomes) :
        LET id == prospects[i].id
        IN \E r \in {GetContactDetails(id, cache, apiKey, outcome)} :
           LET failed == ~r.hit /\ id # "" /\ CallFailed(apiKey, outcome)
           IN
           /\ r.requests # <<>> => Len(enrichLog[id]) < MaxCalls
           /\ enrichLog' = Logged(enrichLog, id, r.requests, failed)
           /\ cache' = r.memo
           /\ run' = Answered(Ran("reveal", FALSE, failed, r.raised, r.error, r.requests,
                                  <<>>, r.value, id, r.hit), outcome)
           /\ contacts' = IF r.raised THEN contacts ELSE Put(contacts, id, r.value)
           /\ UNCHANGED <<apiKey, prospects, last, fn>>

Next == Submit \/ Reveal

Spec == Init /\ [][Next]_vars

\* ------------------------------ the title filter alone --------------------
\* One call of search_prospects on a response the service answers with 200.
TitleAlphabet == {"i", "T"}
TitleSamples ==
    {NoTitle, NumTitle(0), NumTitle(7)}
    \cup {StrTitle(t) : t \in SeqsUpTo(TitleAlphabet, MaxTitleLen)}
    \cup {StrTitle(t) : t \in {
      <<"c", "i", "o">>,
      <<"C", "h", "i", "e", "f", " ", "i", "n", "f", "o", "r", "m", "a", "t", "i", "o", "n", " ", "o", "f", "f", "i", "c", "e", "r">>,
      <<"H", "e", "a", "d", " ", "o", "f", " ", "S", "e", "c", "u", "r", "i", "t", "y">>,
      <<"S", "E", "C", "U", "R", "I", "T", "Y">>,
      <<"S", "e", "c", "u", "r", "e">>,
      <<"S", "a", "l", "e", "s", " ", "M", "a", "n", "a", "g", "e", "r">>,
      <<"H", "R">>,
      <<"v", "p", " ", "i", "t">>,
      <<"C", "F", "O">>,
      <<" ">>}}
BatchPersons == [id : {"p1"}, title : TitleSamples]
Batches == SeqsUpTo(BatchPersons, MaxBatch)

InitSearch ==
    /\ apiKey = TRUE
    /\ prospects = <<>>
    /\ contacts = EmptyMap
    /\ last = DefaultFilters
    /\ cache = EmptyMap
    /\ enrichLog = [id \in EnrichIds |-> <<>>]
    /\ run = FirstRun
    /\ \E role \in RoleNames, people \in Batches :
          fn = [pc |-> "called", name |-> "search_prospects",
                arg |-> [role |-> role, people |-> people], ret |-> <<>>]

SearchReturns ==
    /\ fn.pc = "called"
    /\ fn.name = "search_prospects"
    /\ fn' = [fn EXCEPT !.pc = "returned",
                        !.ret = SearchProspects(<<"a">>, GEOGRAPHIES[2], fn.arg.role, TRUE,
                                                FALSE, DefaultPerPage, apiKey,
                                                Http(200, "object",
                                                     [people |-> fn.arg.people])).found]
    /\ UNCHANGED <<apiKey, prospects, contacts, last, cache, enrichLog, run>>

SpecSearch == InitSearch /\ [][SearchReturns]_vars

\* ------------------------------ the contact selection alone ---------------
\* One call of get_contact_details on a response the service answers with 200.
EmailValues == {None, "a@x.com", "b@x.com"}
EmailStatuses == {"verified", "unverified"}
EmailLists == SeqsUpTo([value : EmailValues, status : EmailStatuses], MaxEmails)
DirectDials == SeqsUpTo({PhoneDict(None), PhoneDict("+1-555-0111"), PhoneBare("+1-555-0122")},
                        MaxPhones)
MobileNumbers == SeqsUpTo({PhoneDict(None), PhoneDict("+1-555-0100"), PhoneBare("+1-555-0133")},
                          MaxPhones)

InitContact ==
    /\ apiKey = TRUE
    /\ prospects = <<>>
    /\ contacts = EmptyMap
    /\ last = DefaultFilters
    /\ cache = EmptyMap
    /\ enrichLog = [id \in EnrichIds |-> <<>>]
    /\ run = FirstRun
    /\ \E e \in EmailLists, d \in DirectDials, m \in MobileNumbers :
          fn = [pc |-> "called", name |-> "get_contact_details",
                arg |-> [emails |-> e, direct_dials |-> d, mobile_phone_numbers |-> m],
                ret |-> <<>>]

ContactReturns ==
    /\ fn.pc = "called"
    /\ fn.name = "get_contact_details"
    /\ fn' = [fn EXCEPT !.pc = "returned",
                        !.ret = GetContactDetails("p1", cache, apiKey,
                                                  Http(200, "object", fn.arg)).value]
    /\ UNCHANGED <<apiKey, prospects, contacts, last, cache, enrichLog, run>>

SpecContact == InitContact /\ [][ContactReturns]_vars

\* ============================== properties ================================
StoreIds == {prospects[i].id : i \in 1..Len(prospects)}

Returned(name) == fn.pc = "returned" /\ fn.name = name

\* --- C1 -------------------------------------------------------------------
\* C1: the directory client fails open.  Whenever the external call fails (no
\* API key, a transport error, a status outside 2xx, a body that is not JSON),
\* search_prospects returns the empty list, get_contact_details returns
\* (None, None), and no exception reaches main.
C1_FailsOpen ==
    run.failed =>
        /\ ~run.raised
        /\ run.kind = "search" => run.found = <<>>
        /\ run.kind = "reveal" => run.contact = NoContact

\* --- C2 -------------------------------------------------------------------
\* C2: enrichment memoization.  Over any sequence of submissions and reveals,
\* at most one enrichment request is sent per prospect identifier.
C2_AtMostOneCall == \A id \in EnrichIds : Len(enrichLog[id]) <= 1

\* --- C3 -------------------------------------------------------------------
VerifiedAt(emails) == {i \in 1..Len(emails) : emails[i].status = "verified"}

FirstOf(S) == CHOOSE i \in S : \A j \in S : i <= j

\* C3 as stated: the email returned is the value of a verified entry when there
\* is one, and None when no entry is verified.
C3_VerifiedOrNone ==
    Returned("get_contact_details") =>
        LET emails == fn.arg.emails
            email == fn.ret[1]
        IN IF VerifiedAt(emails) # {}
           THEN \E i \in VerifiedAt(emails) : email = emails[i].value
           ELSE email = None

\* C3 as amended: the email returned is the value of the first verified entry
\* when that value is not empty; otherwise it is the value of the first entry
\* of the array, whatever its status; it is None for an empty array.
C3_VerifiedElseFirst ==
    Returned("get_contact_details") =>
        LET emails == fn.arg.emails
            email == fn.ret[1]
            V == VerifiedAt(emails)
        IN /\ (V # {} /\ emails[FirstOf(V)].value \notin {None, ""})
                => email = emails[FirstOf(V)].value
           /\ (V = {} \/ emails[FirstOf(V)].value \in {None, ""})
                => /\ emails # <<>> => email = emails[1].value
                   /\ emails = <<>> => email = None

\* C3 witness: an unverified address is returned because no entry is verified.
C3_Witness ==
    /\ Returned("get_contact_details")
    /\ VerifiedAt(fn.arg.emails) = {}
    /\ Len(fn.arg.emails) = 2
    /\ fn.ret[1] = "b@x.com"

\* --- C4 -------------------------------------------------------------------
Numbers(nums) == {nums[i].phone_number : i \in 1..Len(nums)} \ {None}

\* C4: the phone returned is a direct-dial number when one is available,
\* otherwise a mobile number when one is available, otherwise None.
C4_DirectElseMobile ==
    Returned("get_contact_details") =>
        LET direct == Numbers(fn.arg.direct_dials)
            mobile == Numbers(fn.arg.mobile_phone_numbers)
            phone == fn.ret[2]
        IN /\ direct # {} => phone \in direct
           /\ (direct = {} /\ mobile # {}) => phone \in mobile
           /\ (direct = {} /\ mobile = {}) <=> phone = None

\* --- C5 -------------------------------------------------------------------
\* The title contains the keyword somewhere, letter case aside.
ContainsIgnoringCase(text, kw) ==
    \E i \in 1..(Len(text) - Len(kw) + 1) :
        \A j \in 1..Len(kw) : FoldChar(text[i + j - 1]) = FoldChar(kw[j])

HasKeyword(role, person) ==
    \E kw \in Range(ROLE_TYPES[role]) : ContainsIgnoringCase(TitleText(person.title), kw)

\* C5: a person of the response is in the result list if and only if the title
\* contains, letter case aside, a keyword of the role category; the list keeps
\* the response's order, and a person with an empty or missing title is never
\* in it.
C5_TitleFilter ==
    Returned("search_prospects") =>
        LET role == fn.arg.role
            people == fn.arg.people
            Keep(person) == HasKeyword(role, person)
            kept == SelectSeq(people, Keep)
        IN /\ Len(fn.ret) = Len(kept)
           /\ \A i \in 1..Len(kept) :
                /\ fn.ret[i].id = kept[i].id
                /\ fn.ret[i].title = TitleText(kept[i].title)
                /\ fn.ret[i].title # <<>>

\* C5 witness: of two people, the one without a title is dropped and the one
\* whose title holds the keyword is kept.
C5_Witness ==
    /\ Returned("search_prospects")
    /\ fn.arg.role = "Security"
    /\ Len(fn.arg.people) = 2
    /\ fn.arg.people[1].title = NoTitle
    /\ fn.arg.people[2].title = StrTitle(<<"H", "e", "a", "d", " ", "o", "f", " ", "S", "e", "c", "u", "r", "i", "t", "y">>)
    /\ Len(fn.ret) = 1

\* --- C6 -------------------------------------------------------------------
AllSpaces(s) == \A i \in 1..Len(s) : s[i] = " "

\* C6: a submission whose account field is empty or all spaces is turned down
\* with an error, sends no request, and leaves the result store, the contact
\* cache, the enrichment memo and the remembered filters as they were.
C6_BlankRejected ==
    [][(run'.kind = "search" /\ AllSpaces(run'.typed)) =>
           /\ run'.rejected
           /\ run'.error
           /\ run'.requests = <<>>
           /\ UNCHANGED <<prospects, contacts, last, cache, enrichLog>>]_vars

\* C6 witness: a submission of spaces turned down while results and a contact are held.
C6_Witness ==
    /\ run.kind = "search"
    /\ run.rejected
    /\ run.typed = <<" ", " ">>
    /\ prospects # <<>>
    /\ DOMAIN contacts # {}
    /\ last # DefaultFilters

\* --- C7 -------------------------------------------------------------------
\* C7: no two prospects of the result store have the same identifier.
C7_UniqueIds ==
    \A i, j \in 1..Len(prospects) : i # j => prospects[i].id # prospects[j].id

\* --- C8 -------------------------------------------------------------------
SearchRan == run.kind = "search" /\ ~run.rejected

C9_ManualRetry ==
    [][/\ Len(run'.requests) <= 1
       /\ (run'.kind = "reveal" /\ run'.failed) => run'.id \notin DOMAIN contacts'
       /\ (/\ run'.kind = "reveal"
           /\ enrichLog[run'.id] # <<>>
           /\ enrichLog[run'.id][Len(enrichLog[run'.id])] = "failed")
             => Len(enrichLog'[run'.id]) = Len(enrichLog[run'.id]) + 1]_vars

\* --- C10 ------------------------------------------------------------------
\* C10: every key of the contact cache is the identifier of a prospect of the
\* result store; a reveal adds only the identifier of a prospect on display;
\* a submission that replaces the result store empties the contact cache.
C10_ContactsCovered ==
    /\ [](DOMAIN contacts \subseteq StoreIds)
    /\ [][/\ run'.kind = "reveal" =>
                /\ prospects' = prospects
                /\ DOMAIN contacts' \ DOMAIN contacts \subseteq {run'.id}
                /\ run'.id \in StoreIds
          /\ (run'.kind = "search" /\ ~run'.rejected /\ ~run'.raised) =>
                /\ prospects' = run'.found
                /\ contacts' = EmptyMap]_vars

\* C10 witness: a search that found prospects emptied the contact cache after an
\* earlier reveal.
C10_Witness ==
    /\ SearchRan
    /\ ~run.raised
    /\ prospects # <<>>
    /\ DOMAIN contacts = {}
    /\ DOMAIN cache # {}
====
